---- MODULE Spec2Model ----
(***************************************************************************)
(* Model of the ASR6501 LoRaWAN AT-command driver (src/ASR6501.py).        *)
(*                                                                         *)
(* The driver is one thread of control that writes a command to a serial   *)
(* channel and then polls the channel's input buffer.  The device is the   *)
(* environment: it may append a line to the input buffer at any moment.    *)
(* Time is counted in whole seconds since the last `start=time.time()`;    *)
(* one iteration of a polling loop takes less than a second, so the clock  *)
(* a loop iteration reads is the one the previous iteration read, or one   *)
(* second more.                                                            *)
(* Lines are byte strings; they arrive whole, with their line terminator.  *)
(* The device's alphabet has no "+CRSSI:" line, so the list reply of       *)
(* _inquire (doingRssiList, rssiData) is not part of the model; the        *)
(* write-only attribute downlinkRecvd is left out as well.                 *)
(***************************************************************************)
EXTENDS Integers, Sequences, FiniteSets, TLC

---------------------------------------------------------------------------
(* Bounds of the model *)

\* capacity of the serial input buffer, in lines
MaxBuf == 1

\* handler invocations of one call after which the device sends no further
\* receive-notification
MaxDownlinks == 2

\* longest payload, in bytes, calcAirTime is called with
MaxPL == 13

---------------------------------------------------------------------------
(* Program constants *)

OTAA == 0
ABP == 1
\* default rxTimeout of _inquire and _setCmd
DefaultRxTimeout == 2

---------------------------------------------------------------------------
(* Python values: None, bool, int and str, kept apart by a tag *)

PyNone == [t |-> "none", s |-> "", n |-> 0]
PyStr(str) == [t |-> "str", s |-> str, n |-> 0]
PyInt(i) == [t |-> "int", s |-> "", n |-> i]
PyBool(b) == [t |-> "bool", s |-> "", n |-> IF b THEN 1 ELSE 0]
\* a float that is a whole number n of 1/2000 ms (air times for the bandwidths
\* 125, 250 and 500 are)
PyFloat(n) == [t |-> "float", s |-> "", n |-> n]
\* the dict getJoinInfo returns
PyDict(start, autojoin, interval, retries) ==
    [t |-> "dict", d |-> [start |-> start, autojoin |-> autojoin,
                          interval |-> interval, retries |-> retries]]

---------------------------------------------------------------------------
(* String helpers: Python slicing, rstrip, split, int() and the patterns *)

Min(a, b) == IF a <= b THEN a ELSE b

\* s[:n]
Slice(s, n) == SubSeq(s, 1, Min(n, Len(s)))

\* s[n:]
From(s, n) == IF n >= Len(s) THEN "" ELSE SubSeq(s, n + 1, Len(s))

CharAt(s, i) == SubSeq(s, i, i)

IsWs(c) == c \in {" ", "\t", "\r", "\n"}

RECURSIVE rstrip(_)
rstrip(s) ==
    IF Len(s) = 0 THEN s
    ELSE IF IsWs(CharAt(s, Len(s))) THEN rstrip(SubSeq(s, 1, Len(s) - 1))
    ELSE s

RECURSIVE lstrip(_)
lstrip(s) ==
    IF Len(s) = 0 THEN s
    ELSE IF IsWs(CharAt(s, 1)) THEN lstrip(From(s, 1))
    ELSE s

\* index of the first occurrence of character c in s, 0 when there is none
Find(s, c) ==
    LET I == {i \in 1..Len(s) : CharAt(s, i) = c}
    IN IF I = {} THEN 0 ELSE CHOOSE i \in I : \A j \in I : i <= j

\* str.split(sep, maxsplit) for a one-character separator
RECURSIVE split(_, _, _)
split(s, sep, maxsplit) ==
    LET i == Find(s, sep)
    IN IF maxsplit = 0 \/ i = 0 THEN <<s>>
       ELSE <<SubSeq(s, 1, i - 1)>> \o split(From(s, i), sep, maxsplit - 1)

Digits == <<"0", "1", "2", "3", "4", "5", "6", "7", "8", "9">>

IsDigit(c) == \E d \in 1..10 : Digits[d] = c

DigitVal(c) == (CHOOSE d \in 1..10 : Digits[d] = c) - 1

RECURSIVE DecVal(_)
DecVal(s) ==
    IF Len(s) = 0 THEN 0
    ELSE 10 * DecVal(SubSeq(s, 1, Len(s) - 1)) + DigitVal(CharAt(s, Len(s)))

\* int(s): surrounding whitespace and one sign are allowed, then digits only
IntBody(s) ==
    LET u == lstrip(rstrip(s))
    IN IF Len(u) > 0 /\ CharAt(u, 1) \in {"+", "-"} THEN From(u, 1) ELSE u

IntOk(s) ==
    LET b == IntBody(s)
    IN Len(b) > 0 /\ \A i \in 1..Len(b) : IsDigit(CharAt(b, i))

IntOf(s) ==
    LET u == lstrip(rstrip(s))
    IN IF Len(u) > 0 /\ CharAt(u, 1) = "-" THEN 0 - DecVal(IntBody(s))
       ELSE DecVal(IntBody(s))

RECURSIVE DecStr(_)
DecStr(i) ==
    IF i < 10 THEN Digits[i + 1] ELSE DecStr(i \div 10) \o Digits[(i % 10) + 1]

\* f"{i}" for an int
FmtInt(i) == IF i < 0 THEN "-" \o DecStr(0 - i) ELSE DecStr(i)

\* reply_pat = "(.*)[:=](.*)": both groups are greedy, so group(2) is what
\* follows the LAST ':' or '=' of the line
LastSep(s) ==
    LET I == {i \in 1..Len(s) : CharAt(s, i) \in {":", "="}}
    IN IF I = {} THEN 0 ELSE CHOOSE i \in I : \A j \in I : j <= i

\* a pattern whose second group is the whole line
reply_pat_whole(s) ==
    IF LastSep(s) = 0 THEN [m |-> FALSE, g1 |-> "", g2 |-> ""]
    ELSE [m |-> TRUE, g1 |-> SubSeq(s, 1, LastSep(s) - 1), g2 |-> s]

reply_pat(s) ==
    IF LastSep(s) = 0 THEN [m |-> FALSE, g1 |-> "", g2 |-> ""]
    ELSE [m |-> TRUE, g1 |-> SubSeq(s, 1, LastSep(s) - 1), g2 |-> From(s, LastSep(s))]

HexUpper == {"0", "1", "2", "3", "4", "5", "6", "7", "8", "9",
             "A", "B", "C", "D", "E", "F"}

\* re.match("^([0-9A-F][0-9A-F]){k}$", s): n = 2k upper-case hex characters;
\* '$' also matches just before one trailing newline
HexBody(s) ==
    IF Len(s) > 0 /\ CharAt(s, Len(s)) = "\n" THEN SubSeq(s, 1, Len(s) - 1) ELSE s

MatchHex(s, n) ==
    /\ Len(HexBody(s)) = n
    /\ \A i \in 1..n : CharAt(HexBody(s), i) \in HexUpper

hex8char(s) == MatchHex(s, 8)

hex16char(s) == MatchHex(s, 16)

hex32char(s) == MatchHex(s, 32)

---------------------------------------------------------------------------
(* State *)

VARIABLES
    op,               \* the public method running or last run: name and arguments
    pc,               \* where the driver is: "idle" or the loop it is polling in
    rxbuf,            \* serial input buffer: lines received and not yet read
    txlog,            \* byte strings written to the channel by the current call
    timer,            \* whole seconds elapsed since the last start=time.time()
    heard,            \* what the call has read since its last command:
                      \* "nothing", "echo" (echoes and blank lines only),
                      \* "more", or "status" (a join status line, read by
                      \* _getDelayedReplies)
    lastATCmd,        \* self.lastATCmd
    lastErrorType,    \* self.lastErrorType
    lastErrorNum,     \* self.lastErrorNum
    LastErrorType,    \* self.LastErrorType, the attribute _clearLastError writes
    LastErrorNum,     \* self.LastErrorNum, the attribute _clearLastError writes
    joined,           \* self.joined
    joinMode,         \* self.joinMode
    downlinkCallback, \* self.downlinkCallback: "None" or the handler
    kvp,              \* local kvp of _inquire
    rxTimeout,        \* rxTimeout of the running _inquire/_setCmd, or of join's wait
    delay,            \* local delay of sendPayload
    RX1Delay,         \* local RX1Delay of join
    downlinks,        \* the argument tuples the handler was invoked with by
                      \* the current call, in order
    result,           \* how the last call ended: return value or exception
    deviceJoinMode    \* the join mode of the device's current MAC settings

vars == <<op, pc, rxbuf, txlog, timer, heard, lastATCmd, lastErrorType,
          lastErrorNum, LastErrorType, LastErrorNum, joined, joinMode,
          downlinkCallback, kvp, rxTimeout, delay, RX1Delay, downlinks, result,
          deviceJoinMode>>

\* the current state as one record, so that the code's calls compose
S == [op |-> op, pc |-> pc, rxbuf |-> rxbuf, txlog |-> txlog, timer |-> timer,
      heard |-> heard, lastATCmd |-> lastATCmd, lastErrorType |-> lastErrorType,
      lastErrorNum |-> lastErrorNum, LastErrorType |-> LastErrorType,
      LastErrorNum |-> LastErrorNum, joined |-> joined, joinMode |-> joinMode,
      downlinkCallback |-> downlinkCallback, kvp |-> kvp,
      rxTimeout |-> rxTimeout, delay |-> delay, RX1Delay |-> RX1Delay,
      downlinks |-> downlinks, result |-> result,
      deviceJoinMode |-> deviceJoinMode]

Becomes(s) ==
    /\ op' = s.op /\ pc' = s.pc /\ rxbuf' = s.rxbuf /\ txlog' = s.txlog
    /\ timer' = s.timer /\ heard' = s.heard /\ lastATCmd' = s.lastATCmd
    /\ lastErrorType' = s.lastErrorType /\ lastErrorNum' = s.lastErrorNum
    /\ LastErrorType' = s.LastErrorType /\ LastErrorNum' = s.LastErrorNum
    /\ joined' = s.joined /\ joinMode' = s.joinMode
    /\ downlinkCallback' = s.downlinkCallback
    /\ kvp' = s.kvp /\ rxTimeout' = s.rxTimeout /\ delay' = s.delay
    /\ RX1Delay' = s.RX1Delay /\ downlinks' = s.downlinks /\ result' = s.result
    /\ deviceJoinMode' = s.deviceJoinMode

Call(name, str, ints) == [name |-> name, s |-> str, i |-> ints]

Returned(v) == [k |-> "return", v |-> v, e |-> ""]

Raised(e) == [k |-> "raise", v |-> PyNone, e |-> e]

\* exit(e) in __init__: SystemExit ends the construction, and the process
\* unless the caller catches it
Exited(e) == [k |-> "exit", v |-> PyNone, e |-> e]

\* sendPayload's `except Exception as e: logger.exception(...)` followed by
\* `finally: return False`: False is returned, e went to the log
Logged(e) == [k |-> "return", v |-> PyBool(FALSE), e |-> e]

\* the commands __init__ has written when it returns an instance
InitWrites == <<"AT+CGMI?\r\n", "AT+ILOGLVL=0\r\n", "AT+CJOINMODE?\r\n">>

\* the instance __init__ returns: not joined, the join mode the device reported
Init ==
    /\ op = Call("__init__", "", <<>>)
    /\ pc = "idle"
    /\ rxbuf = <<>>
    /\ txlog = InitWrites
    /\ timer = 0
    /\ heard = "nothing"
    /\ lastATCmd = PyStr("CJOINMODE")
    /\ lastErrorType = PyNone
    /\ lastErrorNum = PyNone
    /\ LastErrorType = PyNone
    /\ LastErrorNum = PyNone
    /\ joined = FALSE
    /\ joinMode \in {PyInt(OTAA), PyInt(ABP)}
    /\ downlinkCallback = "None"
    /\ kvp = PyNone
    /\ rxTimeout = 0
    /\ delay = 0
    /\ RX1Delay = 0
    /\ downlinks = <<>>
    /\ result = Returned(PyNone)
    /\ deviceJoinMode = joinMode.n

\* asr6501(serial, ...) is called: the attributes __init__ assigns before its
\* first command; self.joined and self.joinMode do not exist yet; the device
\* is in join mode d
New(j, m, d) ==
    [op |-> Call("__init__", "", <<>>), pc |-> "idle", rxbuf |-> <<>>,
     txlog |-> <<>>, timer |-> 0, heard |-> "nothing", lastATCmd |-> PyNone,
     lastErrorType |-> PyNone, lastErrorNum |-> PyNone,
     LastErrorType |-> PyNone, LastErrorNum |-> PyNone,
     joined |-> j, joinMode |-> m, downlinkCallback |-> "None", kvp |-> PyNone,
     rxTimeout |-> 0, delay |-> 0, RX1Delay |-> 0, downlinks |-> <<>>,
     result |-> Returned(PyNone), deviceJoinMode |-> d]

\* the state is s
Is(s) ==
    /\ op = s.op /\ pc = s.pc /\ rxbuf = s.rxbuf /\ txlog = s.txlog
    /\ timer = s.timer /\ heard = s.heard /\ lastATCmd = s.lastATCmd
    /\ lastErrorType = s.lastErrorType /\ lastErrorNum = s.lastErrorNum
    /\ LastErrorType = s.LastErrorType /\ LastErrorNum = s.LastErrorNum
    /\ joined = s.joined /\ joinMode = s.joinMode
    /\ downlinkCallback = s.downlinkCallback
    /\ kvp = s.kvp /\ rxTimeout = s.rxTimeout /\ delay = s.delay
    /\ RX1Delay = s.RX1Delay /\ downlinks = s.downlinks /\ result = s.result
    /\ deviceJoinMode = s.deviceJoinMode

---------------------------------------------------------------------------
(* Entering and leaving a public method *)

\* a public method is entered: nothing written yet, nothing read yet
Enter(s, call) ==
    [s EXCEPT !.op = call, !.txlog = <<>>, !.timer = 0, !.heard = "nothing",
              !.rxTimeout = 0, !.delay = 0, !.RX1Delay = 0, !.downlinks = <<>>]

\* control goes back to the caller of the public method
Leave(s, res) == [s EXCEPT !.pc = "idle", !.result = res, !.kvp = PyNone]

Return(s, v) == Leave(s, Returned(v))

\* an exception leaves the method, except inside sendPayload's try block,
\* where `finally: return False` replaces it by the return value False
\* and inside the try block of __init__, around getManufId, where
\* `except Exception as e: exit(e)` replaces it by SystemExit
Raise(s, e) ==
    IF s.op.name = "sendPayload" THEN Leave(s, Logged(e))
    ELSE IF s.op.name = "__init__" /\ s.lastATCmd = PyStr("CGMI") THEN Leave(s, Exited(e))
    ELSE Leave(s, Raised(e))

---------------------------------------------------------------------------
(* The serial channel and the clock *)

write(s, bytes) == [s EXCEPT !.txlog = Append(@, bytes)]

reset_input_buffer(s) == [s EXCEPT !.rxbuf = <<>>]

in_waiting(s) == Len(s.rxbuf)

\* readline().rstrip(): the first buffered line, stripped
Line(s) == rstrip(Head(s.rxbuf))

\* the state after readline() took the first buffered line
readline(s) == [s EXCEPT !.rxbuf = Tail(@)]

\* the timeout the running loop compares the clock with
Horizon(s) == IF s.op.name = "sendPayload" /\ s.pc \in {"sendloop", "drain"}
              THEN s.delay ELSE s.rxTimeout

\* time.time() read dt seconds after it was read last; the clock is followed
\* up to the first second past the timeout, where every comparison is settled
Clock(s, dt) == [s EXCEPT !.timer = Min(@ + dt, Horizon(s) + 1)]

\* the transaction has read a line
Hear(s, what) ==
    [s EXCEPT !.heard = IF what = "echo" /\ @ # "more" THEN "echo" ELSE "more"]

---------------------------------------------------------------------------
(* Last error *)

_clearLastError(s) == [s EXCEPT !.LastErrorType = PyNone, !.LastErrorNum = PyNone]

NoError == [AtCmd |-> PyNone, Type |-> PyNone, Num |-> PyNone]

\* getLastATError(): None (NoError) or the dict
getLastATError ==
    IF lastErrorType = PyNone THEN NoError
    ELSE [AtCmd |-> lastATCmd, Type |-> lastErrorType, Num |-> lastErrorNum]

\* self.lastErrorType, self.lastErrorNum = rxData.split(":", 2); raise ASRCMEError
\* unpacking anything but two parts is a ValueError
CMEError(s, rxData) ==
    LET parts == split(rxData, ":", 2)
    IN IF Len(parts) = 2
       THEN Raise([s EXCEPT !.lastErrorType = PyStr(parts[1]),
                            !.lastErrorNum = PyStr(parts[2])], "ASRCMEError")
       ELSE Raise(s, "ValueError")

---------------------------------------------------------------------------
(* The transaction engine: the two commands' first halves *)

\* an inquiry that writes its command over whatever is buffered
_inquire_keeping(s, cmd, t) ==
    LET s1 == _clearLastError(s)
        s2 == [s1 EXCEPT !.lastATCmd = PyStr(cmd)]
        s4 == write(s2, "AT+" \o cmd \o "?\r\n")
    IN [s4 EXCEPT !.kvp = PyNone, !.rxTimeout = t, !.timer = 0,
                  !.heard = "nothing", !.pc = "inq"]

\* _inquire up to its polling loop: clear, remember the command, discard the
\* input buffer, write "AT+<cmd>?\r\n", take the start time
_inquire(s, cmd, t) ==
    LET s1 == _clearLastError(s)
        s2 == [s1 EXCEPT !.lastATCmd = PyStr(cmd)]
        s3 == reset_input_buffer(s2)
        s4 == write(s3, "AT+" \o cmd \o "?\r\n")
    IN [s4 EXCEPT !.kvp = PyNone, !.rxTimeout = t, !.timer = 0,
                  !.heard = "nothing", !.pc = "inq"]

\* _setCmd up to its polling loop
_setCmd(s, cmd, t) ==
    LET s1 == _clearLastError(s)
        s2 == [s1 EXCEPT !.lastATCmd = PyStr(cmd)]
        s3 == reset_input_buffer(s2)
        s4 == write(s3, "AT+" \o cmd \o "\r\n")
    IN [s4 EXCEPT !.rxTimeout = t, !.timer = 0, !.heard = "nothing", !.pc = "set"]

\* _getDelayedReplies up to its loop
_getDelayedReplies(s) == [_clearLastError(s) EXCEPT !.pc = "drain"]

getRX1Delay(s) == _inquire(s, "CRX1DELAY", DefaultRxTimeout)

getClass(s) == _inquire(s, "CCLASS", DefaultRxTimeout)

\* getClass returns self._noneOrInt(value)
getClass_return(s, v) ==
    IF IntOk(v) THEN Return(s, PyInt(IntOf(v))) ELSE Raise(s, "ValueError")

\* a setPingSlotPeriod that writes its command without waiting for getClass
setPingSlotPeriod_pipelined(s, period) ==
    write(getClass(s), "AT+CPINGSLOTINFOREQ=" \o FmtInt(period) \o "\r\n")

\* setPingSlotPeriod starts with deviceClass=self.getClass()
setPingSlotPeriod(s, period) == getClass(s)

\* setPingSlotPeriod after getClass: assert deviceClass==2, then the command
setPingSlotPeriod_class(s, v) ==
    IF ~IntOk(v) THEN Raise(s, "ValueError")
    ELSE IF IntOf(v) # 2 THEN Leave(s, Raised("AssertionError"))
    ELSE _setCmd(s, "CPINGSLOTINFOREQ=" \o FmtInt(s.op.i[1]), DefaultRxTimeout)

getJoinInfo(s) == _inquire(s, "CJOIN", DefaultRxTimeout)

getModelRevision(s) == _inquire(s, "CGMR", DefaultRxTimeout)

getManufId(s) == _inquire(s, "CGMI", DefaultRxTimeout)

\* a getJoinMode served from the joinMode field once it is set
getJoinMode_cached(s) ==
    IF s.joinMode # PyNone THEN Return(s, s.joinMode)
    ELSE _inquire(s, "CJOINMODE", DefaultRxTimeout)

getJoinMode(s) == _inquire(s, "CJOINMODE", DefaultRxTimeout)

setLogLevel(s, level) ==
    IF 0 <= level /\ level <= 5
    THEN _setCmd(s, "ILOGLVL=" \o FmtInt(level), DefaultRxTimeout)
    ELSE Leave(s, Raised("AssertionError"))

---------------------------------------------------------------------------
(* What the callers do with the value an _inquire returns *)

\* return self._inquire(...): the value as a string
getDevEui_return(s, v) == Return(s, PyStr(v))

\* return self._noneOrInt(self._inquire("CRX1DELAY"))
getRX1Delay_return(s, v) ==
    IF IntOk(v) THEN Return(s, PyInt(IntOf(v))) ELSE Raise(s, "ValueError")

\* mode=self._noneOrInt(...); self.joinMode=mode; return mode
getJoinMode_return(s, v) ==
    IF IntOk(v)
    THEN Return([s EXCEPT !.joinMode = PyInt(IntOf(v))], PyInt(IntOf(v)))
    ELSE Raise(s, "ValueError")

\* params=res.split(",",4); the dict takes params[0], params[1], params[3]
\* and params[3]
getJoinInfo_return(s, v) ==
    LET params == split(v, ",", 4)
    IN IF Len(params) < 4 THEN Raise(s, "IndexError")
       ELSE Return(s, PyDict(params[1], params[2], params[4], params[4]))

\* return self._inquire("CGMR")
getModelRevision_return(s, v) == Return(s, PyStr(v))

\* return self._inquire("CGMI")
getManufId_return(s, v) == Return(s, PyStr(v))

\* a construction that goes on whatever the manufacturer is
__init___any(s, reply) == setLogLevel(s, 0)

\* __init__ after reply = self.getManufId(): a reply other than "ASR" raises
\* ASRUnsupportedManuf inside the try block; else self.setLogLevel(0)
__init___manuf(s, reply) ==
    IF reply # "ASR" THEN Raise(s, "ASRUnsupportedManuf")
    ELSE setLogLevel(s, 0)

\* __init__ after setLogLevel(0): self.joined=False; self.getJoinMode()
__init___loglevel(s) == getJoinMode([s EXCEPT !.joined = FALSE])

\* __init__ after getJoinMode(): self.joinMode=mode; the instance is returned
__init___joinmode(s, v) ==
    IF IntOk(v)
    THEN Return([s EXCEPT !.joinMode = PyInt(IntOf(v))], PyNone)
    ELSE Raise(s, "ValueError")

\* a wait bound computed as retries*RX1Delay+1
join_wait_unparenthesized(s, v) ==
    IF IntOk(v)
    THEN [s EXCEPT !.RX1Delay = IntOf(v),
                   !.rxTimeout = s.op.i[4] * IntOf(v) + 1,
                   !.timer = 0, !.pc = "wait"]
    ELSE Raise(s, "ValueError")

\* join: rxTimeout=retries*(RX1Delay+1); start=time.time(); then the busy wait
join_wait(s, v) ==
    IF IntOk(v)
    THEN [s EXCEPT !.RX1Delay = IntOf(v),
                   !.rxTimeout = s.op.i[4] * (IntOf(v) + 1),
                   !.timer = 0, !.pc = "wait"]
    ELSE Raise(s, "ValueError")

\* sendPayload: delay=self.getRX1Delay()+2; start=time.time(); then the loop
sendPayload_window(s, v) ==
    IF IntOk(v)
    THEN [s EXCEPT !.delay = IntOf(v) + 2, !.timer = 0, !.pc = "sendloop"]
    ELSE Raise(s, "ValueError")

\* _inquire returns m.group(2) to the method that called it
AfterInquire(s, v) ==
    CASE s.op.name = "getDevEui" -> getDevEui_return(s, v)
      [] s.op.name = "getManufId" -> getManufId_return(s, v)
      [] s.op.name = "__init__" /\ s.lastATCmd = PyStr("CGMI") -> __init___manuf(s, v)
      [] s.op.name = "__init__" /\ s.lastATCmd # PyStr("CGMI") -> __init___joinmode(s, v)
      [] s.op.name = "getRX1Delay" -> getRX1Delay_return(s, v)
      [] s.op.name = "getClass" -> getClass_return(s, v)
      [] s.op.name = "getJoinInfo" -> getJoinInfo_return(s, v)
      [] s.op.name = "getModelRevision" -> getModelRevision_return(s, v)
      [] s.op.name = "setPingSlotPeriod" -> setPingSlotPeriod_class(s, v)
      [] s.op.name = "getJoinMode" -> getJoinMode_return(s, v)
      [] s.op.name = "join" -> join_wait(s, v)
      [] s.op.name = "sendPayload" -> sendPayload_window(s, v)

\* if self._setCmd(...): self.joinMode = mode; return True
setJoinMode_return(s) ==
    Return([s EXCEPT !.joinMode = PyInt(s.op.i[1])], PyBool(TRUE))

\* _setCmd returns True to the method that called it; join and sendPayload
\* go on to call getRX1Delay
AfterSetCmd(s) ==
    CASE s.op.name = "setJoinMode" -> setJoinMode_return(s)
      [] s.op.name = "__init__" -> __init___loglevel(s)
      [] s.op.name \in {"join", "sendPayload"} -> [s EXCEPT !.pc = "rx1"]
      [] s.op.name = "reboot" -> _getDelayedReplies(s)
      [] OTHER -> Return(s, PyBool(TRUE))

\* _getDelayedReplies returns (nothing) to the method that called it
AfterDelayedReplies(s) ==
    CASE s.op.name = "join" -> Return(s, PyBool(s.joined))
      [] s.op.name = "sendPayload" -> [s EXCEPT !.pc = "sendloop"]
      [] OTHER -> Return(s, PyNone)

\* __init__ up to the polling loop of its first command, AT+CGMI?
__init__(s) == getManufId(s)

\* the construction has begun; an attribute that does not exist yet holds
\* any value
InitConstruct ==
    \E j \in BOOLEAN, m \in {PyNone, PyInt(OTAA), PyInt(ABP)}, d \in {OTAA, ABP} :
        Is(__init__(New(j, m, d)))

---------------------------------------------------------------------------
(* One iteration of each polling loop *)

IsEcho(rxData) == Slice(rxData, 3) = "AT+"

\* a timeout check that lets the second of the timeout itself pass
TimedOutLate(s) == s.timer > s.rxTimeout

\* if time.time()-start>=rxTimeout
TimedOut(s) == s.timer >= s.rxTimeout

Kind(rxData) == IF rxData = "" \/ IsEcho(rxData) THEN "echo" ELSE "more"

\* the while True loop of _inquire
_inquire_poll(s) ==
    IF TimedOut(s) THEN Raise(s, "ASRReceiveTimeout")
    ELSE IF in_waiting(s) = 0 THEN s
    ELSE LET rxData == Line(s)
             r == Hear(readline(s), Kind(rxData))
         IN IF rxData = "" THEN r
            ELSE IF IsEcho(rxData) THEN r
            ELSE IF rxData = "OK"
                 THEN IF r.kvp = PyNone THEN Raise(r, "TypeError")
                      ELSE IF reply_pat(r.kvp.s).m
                           THEN AfterInquire([r EXCEPT !.kvp = PyNone],
                                             reply_pat(r.kvp.s).g2)
                           ELSE Raise(r, "ASRPatternMatchFailed")
            ELSE IF Slice(rxData, 11) = "+CME ERROR:" THEN CMEError(r, rxData)
            ELSE [r EXCEPT !.kvp = PyStr(rxData)]

\* a loop that gives up with False at the first line it does not recognize
_setCmd_poll_strict(s) ==
    IF TimedOut(s) THEN Raise(s, "ASRReceiveTimeout")
    ELSE IF in_waiting(s) = 0 THEN s
    ELSE LET rxData == Line(s)
             r == Hear(readline(s), Kind(rxData))
         IN IF rxData = "" THEN r
            ELSE IF rxData = "OK" THEN AfterSetCmd(r)
            ELSE IF Slice(rxData, 8) = "OK+SEND:" THEN AfterSetCmd(r)
            ELSE IF Slice(rxData, 11) = "+CME ERROR:" THEN CMEError(r, rxData)
            ELSE Return(r, PyBool(FALSE))

\* the while True loop of _setCmd
_setCmd_poll(s) ==
    IF TimedOut(s) THEN Raise(s, "ASRReceiveTimeout")
    ELSE IF in_waiting(s) = 0 THEN s
    ELSE LET rxData == Line(s)
             r == Hear(readline(s), Kind(rxData))
         IN IF rxData = "" THEN r
            ELSE IF rxData = "OK" THEN AfterSetCmd(r)
            ELSE IF Slice(rxData, 8) = "OK+SEND:" THEN AfterSetCmd(r)
            ELSE IF Slice(rxData, 11) = "+CME ERROR:" THEN CMEError(r, rxData)
            ELSE r

\* lastErrorType = kind; lastErrorNum = int(rx[9:]); raise exc
\* a reader that records both failures as the same kind
SendError_conflated(s, rx, kind, exc) ==
    LET s1 == [s EXCEPT !.lastErrorType = PyStr("ERR+SEND")]
    IN IF IntOk(From(rx, 9))
       THEN Raise([s1 EXCEPT !.lastErrorNum = PyInt(IntOf(From(rx, 9)))], exc)
       ELSE Raise(s1, "ValueError")

SendError(s, rx, kind, exc) ==
    LET s1 == [s EXCEPT !.lastErrorType = PyStr(kind)]
    IN IF IntOk(From(rx, 9))
       THEN Raise([s1 EXCEPT !.lastErrorNum = PyInt(IntOf(From(rx, 9)))], exc)
       ELSE Raise(s1, "ValueError")

\* a reader that invokes the handler twice for one line
Downlink_twice(s, rx) ==
    LET parts == split(From(rx, 8), ",", 4)
    IN IF s.downlinkCallback = "None" THEN s
       ELSE IF Len(parts) = 4 THEN [s EXCEPT !.downlinks = Append(Append(@, parts), parts)]
       ELSE Raise(s, "ValueError")

\* type, port, msglen, msg = rx[8:].split(",", 4); self.downlinkCallback(...)
Downlink(s, rx) ==
    LET parts == split(From(rx, 8), ",", 4)
    IN IF s.downlinkCallback = "None" THEN s
       ELSE IF Len(parts) = 4 THEN [s EXCEPT !.downlinks = Append(@, parts)]
       ELSE Raise(s, "ValueError")

\* the while self.serial.in_waiting>0 loop of _getDelayedReplies
_getDelayedReplies_poll(s) ==
    IF in_waiting(s) = 0 THEN AfterDelayedReplies(s)
    ELSE LET rx == Line(s)
             r == readline(s)
         IN IF rx = "" THEN r
            ELSE IF rx = "+CJOIN:OK" THEN [r EXCEPT !.joined = TRUE, !.heard = "status"]
            ELSE IF rx = "+CJOIN:FAIL" THEN [r EXCEPT !.joined = FALSE, !.heard = "status"]
            ELSE IF Slice(rx, 8) = "OK+SENT:" THEN r
            ELSE IF Slice(rx, 8) = "OK+RECV:" THEN Downlink(r, rx)
            ELSE IF Slice(rx, 8) = "OK+SEND:" THEN r
            ELSE IF Slice(rx, 9) = "ERR+SEND:" THEN SendError(r, rx, "ERR+SEND", "ASRERRSend")
            ELSE IF Slice(rx, 9) = "ERR+SENT:" THEN SendError(r, rx, "ERR+SENT", "ASRERRSent")
            ELSE r

\* join's busy wait: while self.serial.in_waiting==0, then _getDelayedReplies
join_poll(s) ==
    IF in_waiting(s) = 0
    THEN IF TimedOut(s) THEN Raise(s, "ASRReceiveTimeout") ELSE s
    ELSE _getDelayedReplies(s)

\* sendPayload's window: while time.time()-start<=delay: _getDelayedReplies();
\* then `return True`, which `finally: return False` replaces
sendPayload_poll(s) ==
    IF s.timer <= s.delay THEN _getDelayedReplies(s)
    ELSE Return(s, PyBool(FALSE))

---------------------------------------------------------------------------
(* Public methods, up to their first wait *)

getDevEui(s) == _inquire(s, "CDEVEUI", DefaultRxTimeout)

setJoinMode(s, mode) ==
    IF 0 <= mode /\ mode <= 1
    THEN _setCmd(s, "CJOINMODE=" \o FmtInt(mode), DefaultRxTimeout)
    ELSE Leave(s, Raised("AssertionError"))

\* a setDevEui that records its command before it validates the key
setDevEui_recording(s, deveui) ==
    LET r == [s EXCEPT !.lastATCmd = PyStr("CDEVEUI=" \o deveui)]
    IN IF r.joinMode # PyInt(OTAA) THEN Leave(r, Raised("AssertionError"))
       ELSE IF hex16char(deveui) THEN _setCmd(r, "CDEVEUI=" \o deveui, DefaultRxTimeout)
       ELSE Raise(r, "ASRInvalidDevEui")

setDevEui(s, deveui) ==
    IF s.joinMode # PyInt(OTAA) THEN Leave(s, Raised("AssertionError"))
    ELSE IF hex16char(deveui) THEN _setCmd(s, "CDEVEUI=" \o deveui, DefaultRxTimeout)
    ELSE Raise(s, "ASRInvalidDevEui")

setAppEui(s, appeui) ==
    IF s.joinMode # PyInt(OTAA) THEN Leave(s, Raised("AssertionError"))
    ELSE IF hex16char(appeui) THEN _setCmd(s, "CAPPEUI=" \o appeui, DefaultRxTimeout)
    ELSE Raise(s, "ASRInvalidAppEui")

setAppKey(s, appkey) ==
    IF s.joinMode # PyInt(OTAA) THEN Leave(s, Raised("AssertionError"))
    ELSE IF hex32char(appkey) THEN _setCmd(s, "CAPPKEY=" \o appkey, DefaultRxTimeout)
    ELSE Raise(s, "ASRInvalidAppKey")

setDevAddr(s, devaddr) ==
    IF hex16char(devaddr) THEN _setCmd(s, "CDEVADDR=" \o devaddr, DefaultRxTimeout)
    ELSE Raise(s, "ASRInvalidDevAddr")

setAppSKey(s, appskey) ==
    IF s.joinMode # PyInt(ABP) THEN Leave(s, Raised("AssertionError"))
    ELSE IF hex32char(appskey) THEN _setCmd(s, "CAPPSKEY=" \o appskey, DefaultRxTimeout)
    ELSE Raise(s, "ASRInvalidAppSKey")

setNwkSKey(s, nwkskey) ==
    IF hex32char(nwkskey) THEN _setCmd(s, "CNWKSKEY=" \o nwkskey, DefaultRxTimeout)
    ELSE Raise(s, "ASRInvalidNwkSKey")

\* assert len(addr)==32, then the command
restoreMacConfiguration(s) == _setCmd(s, "CRESTORE", DefaultRxTimeout)

addMulticastAddr(s, addr) ==
    IF Len(addr) = 32 THEN _setCmd(s, "CADDMUTICAST=" \o addr, DefaultRxTimeout)
    ELSE Leave(s, Raised("AssertionError"))

delMulticastAddr(s, addr) ==
    IF Len(addr) = 32 THEN _setCmd(s, "CDELMUTICAST=" \o addr, DefaultRxTimeout)
    ELSE Leave(s, Raised("AssertionError"))

KeySetters == {"setDevEui", "setAppEui", "setAppKey", "setDevAddr", "setAppSKey", "setNwkSKey"}

KeySetter(s, name, key) ==
    CASE name = "setDevEui" -> setDevEui(s, key)
      [] name = "setAppEui" -> setAppEui(s, key)
      [] name = "setAppKey" -> setAppKey(s, key)
      [] name = "setDevAddr" -> setDevAddr(s, key)
      [] name = "setAppSKey" -> setAppSKey(s, key)
      [] name = "setNwkSKey" -> setNwkSKey(s, key)

\* a join that sends its command whether joined or not
join_unguarded(s, start, autojoin, interval, retries) ==
    IF ~(/\ 0 <= start /\ start <= 1 /\ 0 <= autojoin /\ autojoin <= 1
         /\ 1 <= interval /\ interval <= 255 /\ 1 <= retries /\ retries <= 256)
    THEN Leave(s, Raised("AssertionError"))
    ELSE _setCmd(reset_input_buffer(_clearLastError(s)),
                 "CJOIN=" \o FmtInt(start) \o "," \o FmtInt(autojoin) \o ","
                    \o FmtInt(interval) \o "," \o FmtInt(retries),
                 DefaultRxTimeout)

\* join up to the polling loop of its CJOIN command
join(s, start, autojoin, interval, retries) ==
    IF ~(/\ 0 <= start /\ start <= 1 /\ 0 <= autojoin /\ autojoin <= 1
         /\ 1 <= interval /\ interval <= 255 /\ 1 <= retries /\ retries <= 256)
    THEN Leave(s, Raised("AssertionError"))
    ELSE IF s.joined /\ start # 0 THEN Return(s, PyBool(FALSE))
    ELSE _setCmd(reset_input_buffer(_clearLastError(s)),
                 "CJOIN=" \o FmtInt(start) \o "," \o FmtInt(autojoin) \o ","
                    \o FmtInt(interval) \o "," \o FmtInt(retries),
                 DefaultRxTimeout)

\* bytes.hex() of the UTF-8 encoding, for the characters payloads are made of
HexOfChar(c) ==
    CASE c = "A" -> "41"
      [] c = "B" -> "42"
      [] c = "," -> "2c"
      [] c = "\n" -> "0a"

RECURSIVE HexOf(_)
HexOf(str) == IF Len(str) = 0 THEN "" ELSE HexOfChar(CharAt(str, 1)) \o HexOf(From(str, 1))

\* sendPayload up to the polling loop of its DTRX command
sendPayload(s, payload, confirm, nbtrials) ==
    IF payload = PyNone THEN Leave(s, Raised("AssertionError"))
    ELSE _setCmd(s,
                 "DTRX=" \o FmtInt(confirm) \o "," \o FmtInt(nbtrials) \o ","
                    \o FmtInt(Len(HexOf(payload.s))) \o "," \o HexOf(payload.s),
                 DefaultRxTimeout)

\* str() of a parameter inside an f-string
FmtPy(v) == IF v = PyNone THEN "None" ELSE FmtInt(v.n)

\* setClass up to the polling loop of its CCLASS command; param is
\* <<param1, param2, param3, param4>>
setClass(s, loraClass, branch, param) ==
    IF branch = 0 /\ loraClass = 0
    THEN _setCmd(s, "CCLASS=" \o FmtInt(loraClass), DefaultRxTimeout)
    ELSE IF branch = 0 /\ loraClass = 1
    THEN _setCmd(s, "CCLASS=" \o FmtInt(loraClass) \o "," \o FmtPy(param[1]), DefaultRxTimeout)
    ELSE IF branch = 1 /\ loraClass = 1
    THEN _setCmd(s, "CCLASS=" \o FmtInt(loraClass) \o "," \o FmtPy(param[1]) \o ","
                        \o FmtPy(param[2]) \o "," \o FmtPy(param[3]) \o ","
                        \o FmtPy(param[4]), DefaultRxTimeout)
    ELSE Raise(s, "ASRUnknownClassCombination")

\* a reboot that sends whatever mode it is given
reboot_any(s, mode) == _setCmd(s, "IREBOOT=" \o FmtInt(mode), DefaultRxTimeout)

\* reboot up to the polling loop of its IREBOOT command; the accepted command
\* is followed by _getDelayedReplies
reboot(s, mode) ==
    IF mode \in {0, 1, 7} THEN _setCmd(s, "IREBOOT=" \o FmtInt(mode), DefaultRxTimeout)
    ELSE Raise(s, "ASRInvalidBootMode")

\* a setDownlinkCallback that unregisters the handler when func is not callable
setDownlinkCallback_clearing(s, func) ==
    IF func # "notcallable"
    THEN Return([s EXCEPT !.downlinkCallback = func], PyBool(TRUE))
    ELSE Return([s EXCEPT !.downlinkCallback = "None"], PyBool(FALSE))

\* hasattr(func, '__call__'): handlers are callable, "notcallable" is not
setDownlinkCallback(s, func) ==
    IF func # "notcallable"
    THEN Return([s EXCEPT !.downlinkCallback = func], PyBool(TRUE))
    ELSE Return(s, PyBool(FALSE))

\* a checkForDownlink that takes join status lines as _getDelayedReplies does
checkForDownlink_status(s) ==
    IF in_waiting(s) = 0 THEN Return(s, PyNone)
    ELSE LET rx == Line(s)
             r == readline(s)
         IN IF rx = "+CJOIN:OK" THEN Return([r EXCEPT !.joined = TRUE], PyNone)
            ELSE IF rx = "+CJOIN:FAIL" THEN Return([r EXCEPT !.joined = FALSE], PyNone)
            ELSE Return(r, PyNone)

\* checkForDownlink: nothing buffered, nothing done; else one line is read,
\* and handed to the handler when it is a receive-notification
checkForDownlink(s) ==
    IF in_waiting(s) = 0 THEN Return(s, PyNone)
    ELSE LET rx == Line(s)
             r == readline(s)
             parts == split(From(rx, 8), ",", 4)
         IN IF Slice(rx, 8) = "OK+RECV:" /\ r.downlinkCallback # "None"
            THEN IF Len(parts) = 4
                 THEN Return([r EXCEPT !.downlinks = Append(@, parts)], PyNone)
                 ELSE Raise(r, "ValueError")
            ELSE Return(r, PyNone)

\* math.ceil(a / b) for integers a and b > 0
Ceil(a, b) == -((-a) \div b)

Max(a, b) == IF a >= b THEN a ELSE b

\* a calcAirTime that rounds the number of payload symbols down
calcAirTime_floor(s, PL, SF, BW, NP, HE, DE, CR) ==
    LET Tsym == (2^SF * 2000) \div BW
        Tpreamble == ((4 * NP + 17) * Tsym) \div 4
        payloadSymbNb ==
            8 + Max(((8 * PL - 4 * SF + 28 + 16 - 20 * HE) \div (4 * (SF - 2 * DE))) * (CR + 4), 0)
        Tpayload == payloadSymbNb * Tsym
    IN Return(s, PyFloat(Tpayload + Tpreamble))

\* calcAirTime, statement by statement, every time in 1/2000 ms (Tsym is a
\* whole number of them for the bandwidths 125, 250 and 500, and a multiple
\* of 4); `overhead = 13` is assigned and used nowhere; self is read nowhere
calcAirTime(s, PL, SF, BW, NP, HE, DE, CR) ==
    LET Tsym == (2^SF * 2000) \div BW
        Tpreamble == ((4 * NP + 17) * Tsym) \div 4
        payloadSymbNb ==
            8 + Max(Ceil(8 * PL - 4 * SF + 28 + 16 - 20 * HE, 4 * (SF - 2 * DE)) * (CR + 4), 0)
        Tpayload == payloadSymbNb * Tsym
    IN Return(s, PyFloat(Tpayload + Tpreamble))

---------------------------------------------------------------------------
(* Inputs of the calls and lines of the device *)

Hex8 == "01ABCDEF"

Hex16 == "0123456789ABCDEF"

Hex32 == "0123456789ABCDEF0123456789ABCDEF"

\* key strings: the three well-formed lengths, and malformed ones (too short,
\* too long, lower case, not hexadecimal, empty, ending in a newline)
KeyInputs ==
    {Hex8, Hex16, Hex32, "0123456789ABCDE", "0123456789ABCDEF0",
     "0123456789abcdef", "0123456789ABCDEG", "", Hex16 \o "\n"}

\* multicast addresses: well-formed, 32 characters with a line break among
\* them, and too short
MulticastInputs ==
    {Hex32, "0123456789ABCDEF\r\n456789ABCDEFAT", Hex16}

JoinStarts == {0, 1, 2}

JoinRetries == {1, 8}

Payloads == {PyNone, PyStr("A")}

Handlers == {"f"}

\* the command written last, "" when the current call has written none
LastWritten == IF txlog = <<>> THEN "" ELSE txlog[Len(txlog)]

\* the replies to a command: its echo, OK, an error
ReplyLines == {"OK\r\n", "+CME ERROR:1\r\n"} \cup ({LastWritten} \ {""})

\* the value lines the device answers an outstanding inquiry with
ValueLines ==
    IF pc # "inq" THEN {}
    ELSE CASE LastWritten = "AT+CJOINMODE?\r\n" -> {"+CJOINMODE:" \o FmtInt(deviceJoinMode) \o "\r\n"}
           [] LastWritten = "AT+CRX1DELAY?\r\n" -> {"+CRX1DELAY:5\r\n"}
           [] LastWritten = "AT+CDEVEUI?\r\n" -> {"+CDEVEUI:" \o Hex16 \o "\r\n"}
           [] LastWritten = "AT+CGMI?\r\n" -> {"+CGMI=ASR\r\n", "+CGMI=XYZ\r\n"}
           [] LastWritten = "AT+CCLASS?\r\n" -> {"+CCLASS:0\r\n", "+CCLASS:1\r\n", "+CCLASS:2\r\n"}
           [] LastWritten = "AT+CJOIN?\r\n" -> {"+CJOIN:1,0,8,9\r\n", "+CJOIN:0,1,7\r\n"}
           [] LastWritten = "AT+CGMR?\r\n" -> {"+CGMR=v4.3 softversion=V1.2.0\r\n", "+CGMR=v4.3\r\n"}
           [] OTHER -> {}

\* the prompt (a line the driver does not recognize) and a blank line
NoiseLines == {"ASR6501:~#\r\n", "\r\n"}

JoinStatusLines == {"+CJOIN:OK\r\n", "+CJOIN:FAIL\r\n"}

SendOkLines == {"OK+SENT:1\r\n", "OK+SEND:2\r\n"}

SendErrorLines == {"ERR+SEND:1\r\n", "ERR+SENT:2\r\n"}

DownlinkLines == {"OK+RECV:1,2,4,deadbeef\r\n", "OK+RECV:1,2,5,de,ad\r\n"}

---------------------------------------------------------------------------
(* Actions of the device *)

\* the join mode of the device's saved MAC settings: the factory's
SavedJoinMode == OTAA

\* the join mode of the device once it has answered the command written last
\* with line l: 'OK' to CJOINMODE=<m> makes it m, 'OK' to CRESTORE the saved
\* one
Accepted(l) ==
    IF l # "OK\r\n" THEN deviceJoinMode
    ELSE CASE LastWritten = "AT+CJOINMODE=0\r\n" -> OTAA
           [] LastWritten = "AT+CJOINMODE=1\r\n" -> ABP
           [] LastWritten = "AT+CRESTORE\r\n" -> SavedJoinMode
           [] OTHER -> deviceJoinMode

DeviceSends(lines) ==
    /\ Len(rxbuf) < MaxBuf
    /\ \E l \in lines : rxbuf' = Append(rxbuf, l) /\ deviceJoinMode' = Accepted(l)
    /\ UNCHANGED <<op, pc, txlog, timer, heard, lastATCmd, lastErrorType,
                   lastErrorNum, LastErrorType, LastErrorNum, joined, joinMode,
                   downlinkCallback, kvp, rxTimeout, delay, RX1Delay, downlinks,
                   result>>

EmitReply == DeviceSends(ReplyLines)

EmitNoise == DeviceSends(NoiseLines)

EmitJoinStatus == DeviceSends(JoinStatusLines)

EmitValue == DeviceSends(ValueLines)

EmitSendOk == DeviceSends(SendOkLines)

EmitSendError == DeviceSends(SendErrorLines)

EmitDownlink == Len(downlinks) < MaxDownlinks /\ DeviceSends(DownlinkLines)

---------------------------------------------------------------------------
(* Actions of the driver: calls of public methods, and loop iterations *)

\* there is an instance to call: the construction has returned one
Constructed == op.name = "__init__" => (pc = "idle" /\ result.k = "return")

CallGetDevEui ==
    /\ pc = "idle"
    /\ Constructed
    /\ Becomes(getDevEui(Enter(S, Call("getDevEui", "", <<>>))))

CallGetManufId ==
    /\ pc = "idle"
    /\ Constructed
    /\ Becomes(getManufId(Enter(S, Call("getManufId", "", <<>>))))

CallGetRX1Delay ==
    /\ pc = "idle"
    /\ Constructed
    /\ Becomes(getRX1Delay(Enter(S, Call("getRX1Delay", "", <<>>))))

CallGetJoinMode ==
    /\ pc = "idle"
    /\ Constructed
    /\ Becomes(getJoinMode(Enter(S, Call("getJoinMode", "", <<>>))))

CallSetJoinMode ==
    /\ pc = "idle"
    /\ Constructed
    /\ \E mode \in {OTAA, ABP, 2} :
          Becomes(setJoinMode(Enter(S, Call("setJoinMode", "", <<mode>>)), mode))

CallKeySetter ==
    /\ pc = "idle"
    /\ Constructed
    /\ \E name \in KeySetters, key \in KeyInputs :
          Becomes(KeySetter(Enter(S, Call(name, key, <<>>)), name, key))

CallJoin ==
    /\ pc = "idle"
    /\ Constructed
    /\ \E start \in JoinStarts, retries \in JoinRetries :
          Becomes(join(Enter(S, Call("join", "", <<start, 0, 8, retries>>)),
                       start, 0, 8, retries))

CallSendPayload ==
    /\ pc = "idle"
    /\ Constructed
    /\ \E payload \in Payloads :
          Becomes(sendPayload(Enter(S, Call("sendPayload", payload.s, <<0, 8>>)),
                              payload, 0, 8))

CallSetDownlinkCallback ==
    /\ pc = "idle"
    /\ Constructed
    /\ \E func \in Handlers \cup {"notcallable"} :
          Becomes(setDownlinkCallback(Enter(S, Call("setDownlinkCallback", func, <<>>)), func))

\* another handler is registered
CallSetOtherDownlinkCallback ==
    /\ pc = "idle"
    /\ Constructed
    /\ Becomes(setDownlinkCallback(Enter(S, Call("setDownlinkCallback", "g", <<>>)), "g"))

CallCheckForDownlink ==
    /\ pc = "idle"
    /\ Constructed
    /\ Becomes(checkForDownlink(Enter(S, Call("checkForDownlink", "", <<>>))))

\* join with a start, an interval or a number of retries out of range
CallJoinOutOfRange ==
    /\ pc = "idle"
    /\ Constructed
    /\ \E a \in {<<2, 8, 8>>, <<1, 0, 8>>, <<1, 256, 8>>, <<0, 8, 0>>, <<1, 8, 257>>} :
          Becomes(join(Enter(S, Call("join", "", <<a[1], 0, a[2], a[3]>>)),
                       a[1], 0, a[2], a[3]))

CallReboot ==
    /\ pc = "idle"
    /\ Constructed
    /\ \E mode \in {0, 1, 2, 7, 8} :
          Becomes(reboot(Enter(S, Call("reboot", "", <<mode>>)), mode))

\* the parameters of setClass: the defaults (None), or numbers
ClassParams ==
    {<<PyNone, PyNone, PyNone, PyNone>>, <<PyInt(3), PyNone, PyNone, PyNone>>,
     <<PyInt(3), PyInt(3), PyInt(3), PyInt(3)>>}

CallSetClass ==
    /\ pc = "idle"
    /\ Constructed
    /\ \E loraClass \in 0..3, branch \in {0, 1}, param \in ClassParams :
          Becomes(setClass(Enter(S, Call("setClass", FmtPy(param[1]) \o "," \o FmtPy(param[2]),
                                         <<loraClass, branch>>)),
                           loraClass, branch, param))

CallGetClass ==
    /\ pc = "idle"
    /\ Constructed
    /\ Becomes(getClass(Enter(S, Call("getClass", "", <<>>))))

CallGetJoinInfo ==
    /\ pc = "idle"
    /\ Constructed
    /\ Becomes(getJoinInfo(Enter(S, Call("getJoinInfo", "", <<>>))))

CallGetModelRevision ==
    /\ pc = "idle"
    /\ Constructed
    /\ Becomes(getModelRevision(Enter(S, Call("getModelRevision", "", <<>>))))

CallRestoreMacConfiguration ==
    /\ pc = "idle"
    /\ Constructed
    /\ Becomes(restoreMacConfiguration(Enter(S, Call("restoreMacConfiguration", "", <<>>))))

CallAddMulticastAddr ==
    /\ pc = "idle"
    /\ Constructed
    /\ \E addr \in MulticastInputs :
          Becomes(addMulticastAddr(Enter(S, Call("addMulticastAddr", addr, <<>>)), addr))

CallDelMulticastAddr ==
    /\ pc = "idle"
    /\ Constructed
    /\ \E addr \in MulticastInputs :
          Becomes(delMulticastAddr(Enter(S, Call("delMulticastAddr", addr, <<>>)), addr))

CallSetPingSlotPeriod ==
    /\ pc = "idle"
    /\ Constructed
    /\ \E period \in {3} :
          Becomes(setPingSlotPeriod(Enter(S, Call("setPingSlotPeriod", "", <<period>>)), period))

\* setDevEui alone, with a well-formed and a malformed key
CallSetDevEui ==
    /\ pc = "idle"
    /\ Constructed
    /\ \E key \in {Hex16, ""} :
          Becomes(setDevEui(Enter(S, Call("setDevEui", key, <<>>)), key))

CallCalcAirTime ==
    /\ pc = "idle"
    /\ Constructed
    /\ \E PL \in {0, 13}, SF \in {9}, BW \in {125, 500} :
          Becomes(calcAirTime(Enter(S, Call("calcAirTime", "", <<PL, SF, BW, 8, 0, 0, 1>>)),
                              PL, SF, BW, 8, 0, 0, 1))

\* the body of a calcAirTime that was called with the arguments op.i
CalcAirTimeRun ==
    /\ pc = "called"
    /\ Becomes(calcAirTime(S, op.i[1], op.i[2], op.i[3], op.i[4], op.i[5], op.i[6], op.i[7]))

InquirePoll == pc = "inq" /\ \E dt \in {0, 1} : Becomes(_inquire_poll(Clock(S, dt)))

SetCmdPoll == pc = "set" /\ \E dt \in {0, 1} : Becomes(_setCmd_poll(Clock(S, dt)))

\* join and sendPayload call getRX1Delay after their command was accepted
RX1DelayCall == pc = "rx1" /\ Becomes(getRX1Delay(S))

JoinPoll == pc = "wait" /\ \E dt \in {0, 1} : Becomes(join_poll(Clock(S, dt)))

DelayedRepliesPoll ==
    pc = "drain" /\ \E dt \in {0, 1} : Becomes(_getDelayedReplies_poll(Clock(S, dt)))

SendPayloadPoll ==
    pc = "sendloop" /\ \E dt \in {0, 1} : Becomes(sendPayload_poll(Clock(S, dt)))

---------------------------------------------------------------------------
(* Specifications *)

\* the transaction engine: inquiries and set commands
Next ==
    \/ EmitReply
    \/ EmitValue
    \/ EmitNoise
    \/ EmitJoinStatus
    \/ CallGetDevEui
    \/ CallGetManufId
    \/ CallGetRX1Delay
    \/ CallGetJoinMode
    \/ CallSetJoinMode
    \/ InquirePoll
    \/ SetCmdPoll

Spec == Init /\ [][Next]_vars

\* join: the CJOIN command, the RX1 delay inquiry, the wait, the delayed replies
NextJoin ==
    \/ EmitReply
    \/ EmitValue
    \/ EmitNoise
    \/ EmitJoinStatus
    \/ EmitSendOk
    \/ CallJoin
    \/ InquirePoll
    \/ SetCmdPoll
    \/ RX1DelayCall
    \/ JoinPoll
    \/ DelayedRepliesPoll

SpecJoin == Init /\ [][NextJoin]_vars

\* uplink: the DTRX command, the RX1 delay inquiry, the receive window
NextSend ==
    \/ EmitReply
    \/ EmitValue
    \/ EmitNoise
    \/ EmitSendOk
    \/ EmitSendError
    \/ EmitDownlink
    \/ CallSendPayload
    \/ CallSetDownlinkCallback
    \/ InquirePoll
    \/ SetCmdPoll
    \/ RX1DelayCall
    \/ DelayedRepliesPoll
    \/ SendPayloadPoll

SpecSend == Init /\ [][NextSend]_vars

\* the key setters and the join mode that gates them
NextKeys ==
    \/ EmitReply
    \/ CallSetJoinMode
    \/ CallKeySetter
    \/ SetCmdPoll

SpecKeys == Init /\ [][NextKeys]_vars

\* the construction of an instance
NextInit ==
    \/ EmitReply
    \/ EmitValue
    \/ EmitNoise
    \/ InquirePoll
    \/ SetCmdPoll

SpecInit == InitConstruct /\ [][NextInit]_vars

\* the downlink poll of a continuously listening device, outside any
\* transaction
NextDownlink ==
    \/ EmitDownlink
    \/ EmitJoinStatus
    \/ EmitNoise
    \/ EmitSendOk
    \/ CallSetDownlinkCallback
    \/ CallSetOtherDownlinkCallback
    \/ CallCheckForDownlink

SpecDownlink == Init /\ [][NextDownlink]_vars

\* the methods that validate their arguments, after calls that were accepted
\* or refused by the device
NextReject ==
    \/ EmitReply
    \/ CallSetJoinMode
    \/ CallKeySetter
    \/ CallJoinOutOfRange
    \/ CallReboot
    \/ SetCmdPoll
    \/ DelayedRepliesPoll

SpecReject == Init /\ [][NextReject]_vars

\* the device class: setClass, getClass and setPingSlotPeriod
NextClass ==
    \/ EmitReply
    \/ EmitValue
    \/ CallSetClass
    \/ CallGetClass
    \/ CallSetPingSlotPeriod
    \/ InquirePoll
    \/ SetCmdPoll

SpecClass == Init /\ [][NextClass]_vars

\* the set commands that carry a caller's string: keys and multicast addresses
NextWire ==
    \/ EmitReply
    \/ CallSetJoinMode
    \/ CallKeySetter
    \/ CallAddMulticastAddr
    \/ CallDelMulticastAddr
    \/ SetCmdPoll

SpecWire == Init /\ [][NextWire]_vars

\* the join mode of the device and the driver's copy of it
NextMode ==
    \/ EmitReply
    \/ EmitValue
    \/ CallGetJoinMode
    \/ CallSetJoinMode
    \/ CallRestoreMacConfiguration
    \/ CallReboot
    \/ InquirePoll
    \/ SetCmdPoll
    \/ DelayedRepliesPoll

SpecMode == Init /\ [][NextMode]_vars

\* the inquiries that report the join parameters and the firmware revision
NextInfo ==
    \/ EmitReply
    \/ EmitValue
    \/ CallGetJoinInfo
    \/ CallGetModelRevision
    \/ InquirePoll

SpecInfo == Init /\ [][NextInfo]_vars

\* the operations that run more than one transaction: the construction,
\* join, sendPayload, setPingSlotPeriod, and reboot with its reader
NextChannel ==
    \/ EmitReply
    \/ EmitValue
    \/ EmitJoinStatus
    \/ CallJoin
    \/ CallSendPayload
    \/ CallSetPingSlotPeriod
    \/ CallReboot
    \/ InquirePoll
    \/ SetCmdPoll
    \/ RX1DelayCall
    \/ JoinPoll
    \/ DelayedRepliesPoll
    \/ SendPayloadPoll

SpecChannel == InitConstruct /\ [][NextChannel]_vars

\* the arguments calcAirTime is called with
AirTimeInputs ==
    {<<PL, SF, BW, NP, HE, DE, CR>> :
        PL \in 0..MaxPL, SF \in 7..12, BW \in {125, 250, 500}, NP \in {6, 8},
        HE \in {0, 1}, DE \in {0, 1}, CR \in 1..4}

\* calcAirTime has been called on a constructed driver, in either join mode,
\* with or without a line waiting in the input buffer
InitAirTime ==
    \E m \in {PyInt(OTAA), PyInt(ABP)}, b \in {<<>>, <<"+CJOIN:OK\r\n">>}, a \in AirTimeInputs :
        Is([New(FALSE, m, m.n) EXCEPT !.op = Call("calcAirTime", "", a), !.pc = "called",
                                 !.rxbuf = b, !.txlog = InitWrites,
                                 !.lastATCmd = PyStr("CJOINMODE")])

NextAirTime == CalcAirTimeRun

SpecAirTime == InitAirTime /\ [][NextAirTime]_vars

\* a driver from its construction on: a getter, a setter, setJoinMode,
\* checkForDownlink, setDownlinkCallback, calcAirTime, and sendPayload with
\* its reader
NextState ==
    \/ EmitReply
    \/ EmitValue
    \/ EmitJoinStatus
    \/ CallGetJoinMode
    \/ CallSetJoinMode
    \/ CallSetDevEui
    \/ CallSendPayload
    \/ CallSetDownlinkCallback
    \/ CallCheckForDownlink
    \/ CallCalcAirTime
    \/ InquirePoll
    \/ SetCmdPoll
    \/ RX1DelayCall
    \/ DelayedRepliesPoll
    \/ SendPayloadPoll

SpecState == InitConstruct /\ [][NextState]_vars

TypeOK ==
    /\ pc \in {"idle", "called", "inq", "set", "rx1", "wait", "drain", "sendloop"}
    /\ Len(rxbuf) <= MaxBuf
    /\ timer \in 0..49
    /\ heard \in {"nothing", "echo", "more", "status"}
    /\ joined \in BOOLEAN
    /\ deviceJoinMode \in {OTAA, ABP}

---------------------------------------------------------------------------
(* Properties of the last error *)

TransactionCalls == {"getDevEui", "getRX1Delay", "getJoinMode", "setJoinMode"}

\* C1: once a transaction has completed successfully, getLastATError() returns
\* None, whatever the transactions before it did.
C1_LastErrorOnlyMostRecent ==
    (pc = "idle" /\ op.name \in TransactionCalls /\ result.k = "return")
        => getLastATError = NoError

\* C2: an _inquire that reads a line '+CME ERROR:<n>' fails with ASRCMEError,
\* and getLastATError() then gives the mnemonic written, the kind '+CME ERROR'
\* and the integer n.
C2_CMEErrorRecorded ==
    [][ (/\ pc = "inq" /\ rxbuf # <<>> /\ rxbuf' = Tail(rxbuf)
         /\ Slice(Line(S), 11) = "+CME ERROR:")
        => (/\ pc' = "idle"
            /\ result' = Raised("ASRCMEError")
            /\ LastWritten = "AT+" \o lastATCmd.s \o "?\r\n"
            /\ getLastATError' = [AtCmd |-> lastATCmd,
                                  Type |-> PyStr("+CME ERROR"),
                                  Num |-> PyInt(IntOf(From(Line(S), 11)))]) ]_vars

---------------------------------------------------------------------------
(* Properties of the timeouts *)

\* C3: an _inquire with timeout T is never still polling T seconds after the
\* command was written, and one that ends having read nothing but echoes
\* ends with ASRReceiveTimeout, raised when the clock reads T.
C3_InquireTimeout ==
    /\ [](pc = "inq" => timer < rxTimeout)
    /\ [][ (pc = "inq" /\ pc' = "idle" /\ heard' # "more")
           => (result' = Raised("ASRReceiveTimeout") /\ timer' = rxTimeout) ]_vars

\* an inquiry was answered by its echo only and has timed out
C3_Witness ==
    /\ pc = "idle" /\ op.name = "getDevEui" /\ heard = "echo"
    /\ result = Raised("ASRReceiveTimeout") /\ timer = DefaultRxTimeout

\* C4: no operation is still running after its explicit or derived timeout
\* has elapsed, whatever the device sends.
C4_ReturnsWithinTimeout == pc # "idle" => timer <= Horizon(S)

---------------------------------------------------------------------------
(* Properties of the key setters *)

\* the length the specification requires of each setter's key
RequiredLen(name) ==
    IF name \in {"setDevEui", "setAppEui"} THEN 16
    ELSE IF name = "setDevAddr" THEN 8
    ELSE 32

\* exactly n characters, each an upper-case hexadecimal digit
WellFormedKey(str, n) ==
    Len(str) = n /\ \A i \in 1..Len(str) : CharAt(str, i) \in HexUpper

\* the join mode each setter belongs to
ModeOf(name) ==
    IF name \in {"setDevEui", "setAppEui", "setAppKey"} THEN PyInt(OTAA) ELSE PyInt(ABP)

\* the error each setter has for a malformed key
InvalidOf(name) ==
    CASE name = "setDevEui" -> "ASRInvalidDevEui"
      [] name = "setAppEui" -> "ASRInvalidAppEui"
      [] name = "setAppKey" -> "ASRInvalidAppKey"
      [] name = "setDevAddr" -> "ASRInvalidDevAddr"
      [] name = "setAppSKey" -> "ASRInvalidAppSKey"
      [] name = "setNwkSKey" -> "ASRInvalidNwkSKey"

\* C5: a key setter called in its own join mode with a string that is not
\* upper-case hexadecimal of exactly the required length has ended with its
\* own ASRInvalid... error and has written nothing.
C5_MalformedKeyRejected ==
    (/\ op.name \in KeySetters
     /\ joinMode = ModeOf(op.name)
     /\ ~WellFormedKey(op.s, RequiredLen(op.name)))
        => (/\ pc = "idle"
            /\ result = Raised(InvalidOf(op.name))
            /\ txlog = <<>>)

\* C6: a key setter called in the other join mode has ended with an error
\* that is not ASRCMEError, and has written nothing.
C6_KeyOnlyInMatchingMode ==
    (op.name \in KeySetters /\ joinMode # ModeOf(op.name))
        => (/\ pc = "idle"
            /\ result.k = "raise"
            /\ result.e # "ASRCMEError"
            /\ txlog = <<>>)

---------------------------------------------------------------------------
(* Properties of join *)

\* C7: join(start=1) on a joined driver returns False at once: nothing is
\* written, the input buffer keeps its lines, the driver stays joined.
C7_JoinWhenJoined ==
    [][ (joined /\ CallJoin /\ op'.i[1] = 1)
        => (/\ pc' = "idle"
            /\ result' = Returned(PyBool(FALSE))
            /\ txlog' = <<>>
            /\ rxbuf' = rxbuf
            /\ joined') ]_vars

\* a joined driver, with a line waiting in the input buffer, was asked to join
C7_Witness ==
    /\ pc = "idle" /\ op.name = "join" /\ op.i = <<1, 0, 8, 8>> /\ joined
    /\ result = Returned(PyBool(FALSE)) /\ txlog = <<>> /\ rxbuf # <<>>

\* C8: a join(start=1) whose command was accepted returns only after a join
\* status line was read or the wait bound has elapsed, and when a status line
\* was read it returns True for '+CJOIN:OK' and False for '+CJOIN:FAIL', with
\* the join state to match.
C8_JoinFollowsStatus ==
    (/\ pc = "idle" /\ op.name = "join" /\ op.i[1] = 1
     /\ result.k = "return" /\ Len(txlog) = 2)
        => (/\ heard = "status" \/ timer >= rxTimeout
            /\ heard = "status" => result = Returned(PyBool(joined)))

\* C9: join waits retries*(RX1 delay+1) seconds for a first line; when none
\* has arrived by then it fails with ASRReceiveTimeout and the join state is
\* what it was, not joined for a join(start=1).
C9_JoinWaitBound ==
    /\ [](pc = "wait" => (rxTimeout = op.i[4] * (RX1Delay + 1) /\ timer < rxTimeout))
    /\ [][ (pc = "wait" /\ pc' = "idle")
           => (/\ result' = Raised("ASRReceiveTimeout")
               /\ timer' = rxTimeout
               /\ rxbuf = <<>> /\ rxbuf' = <<>>
               /\ joined' = joined
               /\ (op.i[1] = 1 => ~joined')) ]_vars

\* a join with 8 retries and an RX1 delay of 5 has timed out after 48 seconds
C9_Witness ==
    /\ pc = "idle" /\ op.name = "join" /\ op.i = <<1, 0, 8, 8>>
    /\ RX1Delay = 5 /\ rxTimeout = 48 /\ timer = 48
    /\ result = Raised("ASRReceiveTimeout") /\ Len(txlog) = 2 /\ ~joined

\* C10: a join(start=0) never makes a driver joined that was not.
C10_StopNeverJoins ==
    [][ (op.name = "join" /\ op.i[1] = 0 /\ pc # "idle" /\ ~joined) => ~joined' ]_vars

---------------------------------------------------------------------------
(* Properties of the asynchronous reader and of sendPayload *)

\* the reader takes a receive-notification from the input buffer
ReadsRecv ==
    /\ pc = "drain" /\ rxbuf # <<>> /\ rxbuf' = Tail(rxbuf)
    /\ downlinkCallback # "None"
    /\ Slice(Line(S), 8) = "OK+RECV:"

\* the four fields of a receive-notification: what lies between its first
\* three commas, and all that follows the third
RecvFields(rx) == split(From(rx, 8), ",", 3)

\* C11: a line 'OK+RECV:<type>,<port>,<len>,<payload>' read by the reader
\* while a handler is registered invokes the handler exactly once, with the
\* four fields as strings, and the reader goes on draining.
C11_HandlerInvokedOnce ==
    [][ (ReadsRecv /\ Len(split(From(Line(S), 8), ",", 5)) = 4)
        => (/\ downlinks' = Append(downlinks, RecvFields(Line(S)))
            /\ (Line(S) = "OK+RECV:1,2,4,deadbeef"
                   => downlinks'[Len(downlinks')] = <<"1", "2", "4", "deadbeef">>)
            /\ pc' = "drain") ]_vars

\* the handler has been invoked once, with the four fields of the line
C11_Witness ==
    /\ pc = "drain" /\ op.name = "sendPayload" /\ downlinkCallback = "f"
    /\ downlinks = << <<"1", "2", "4", "deadbeef">> >>

\* C12: a receive-notification whose payload contains commas is split at its
\* first three commas only; the handler gets the rest, commas included, as
\* the payload, and no error is raised.
C12_PayloadWithCommas ==
    [][ (ReadsRecv /\ Len(RecvFields(Line(S))) = 4)
        => (/\ downlinks' = Append(downlinks, RecvFields(Line(S)))
            /\ pc' = "drain") ]_vars

\* C13: a sendPayload that ended without an error (command accepted, RX1
\* delay read, no send error in the receive window) has returned True.
C13_SendPayloadReturnsTrue ==
    (pc = "idle" /\ op.name = "sendPayload" /\ result.k = "return" /\ result.e = "")
        => result.v = PyBool(TRUE)

\* C14: an 'ERR+SEND:<n>' or 'ERR+SENT:<n>' line read by the reader during
\* sendPayload makes sendPayload fail towards its caller with ASRERRSend or
\* ASRERRSent, and getLastATError() gives the code n.
C14_SendErrorReachesCaller ==
    [][ (/\ op.name = "sendPayload" /\ pc = "drain"
         /\ rxbuf # <<>> /\ rxbuf' = Tail(rxbuf)
         /\ Slice(Line(S), 9) \in {"ERR+SEND:", "ERR+SENT:"})
        => (/\ pc' = "idle"
            /\ result' = Raised(IF Slice(Line(S), 9) = "ERR+SEND:"
                                THEN "ASRERRSend" ELSE "ASRERRSent")
            /\ getLastATError'.Num = PyInt(IntOf(From(Line(S), 9)))) ]_vars

\* C15: checkForDownlink is one pass of the reader over what is buffered: it
\* leaves no buffered line unprocessed, and a buffered '+CJOIN:OK' or
\* '+CJOIN:FAIL' sets the join state as it does in _getDelayedReplies.
C15_CheckForDownlinkIsReaderPass ==
    [][ (CallCheckForDownlink /\ rxbuf # <<>>
         /\ Line(S) \in {"+CJOIN:OK", "+CJOIN:FAIL"})
        => (rxbuf' = <<>> /\ joined' = (Line(S) = "+CJOIN:OK")) ]_vars

---------------------------------------------------------------------------
(* Properties of a transaction *)

\* C16: when an inquiry or a set command starts, what was buffered is
\* discarded before the command is written: the transaction starts with an
\* empty input buffer, having read nothing and holding no value line.
C16_BufferDiscardedBeforeWrite ==
    [][ (pc \notin {"inq", "set"} /\ pc' \in {"inq", "set"})
        => (/\ rxbuf' = <<>>
            /\ heard' = "nothing"
            /\ kvp' = PyNone
            /\ txlog' # <<>>
            /\ txlog'[Len(txlog')] \in {"AT+" \o lastATCmd'.s \o "?\r\n",
                                        "AT+" \o lastATCmd'.s \o "\r\n"}) ]_vars

\* an inquiry that follows a failed call has started, with nothing buffered
C16_Witness ==
    /\ pc = "inq" /\ op.name = "getDevEui" /\ txlog = <<"AT+CDEVEUI?\r\n">>
    /\ rxbuf = <<>> /\ heard = "nothing" /\ timer = 0
    /\ result = Raised("ASRCMEError")

\* the line a loop iteration takes from the input buffer, "" when it takes
\* none; an iteration that goes on to write the next command took one, and the
\* rest of the buffer was discarded before the write
Taken ==
    IF /\ rxbuf # <<>>
       /\ \/ rxbuf' = Tail(rxbuf)
          \/ pc \in {"inq", "set"} /\ Len(txlog') > Len(txlog)
    THEN Line(S) ELSE ""

\* _setCmd has returned True to the method that called it
SetCmdAccepted ==
    \/ pc' = "rx1"
    \/ pc' = "idle" /\ result' = Returned(PyBool(TRUE))

---------------------------------------------------------------------------
(* Properties of the construction *)

\* C18: the construction goes on to its second command only when the CGMI
\* inquiry has returned 'ASR' (value line '+CGMI=ASR', then 'OK'); when the
\* inquiry ends in any other way the construction ends by exit, having
\* written nothing but AT+CGMI?, and stays ended.
C18_ManufacturerGate ==
    /\ [](result.k = "exit" => (pc = "idle" /\ txlog = <<"AT+CGMI?\r\n">>))
    /\ [][ (op.name = "__init__" /\ lastATCmd = PyStr("CGMI")
            /\ pc = "inq" /\ pc' # "inq")
           => IF Taken = "OK" /\ kvp = PyStr("+CGMI=ASR")
              THEN pc' = "set" /\ txlog' = <<"AT+CGMI?\r\n", "AT+ILOGLVL=0\r\n">>
              ELSE pc' = "idle" /\ result'.k = "exit" /\ txlog' = txlog ]_vars

\* the device named another manufacturer and the construction has ended
C18_Witness ==
    /\ op.name = "__init__" /\ pc = "idle" /\ heard = "more"
    /\ result = Exited("ASRUnsupportedManuf") /\ txlog = <<"AT+CGMI?\r\n">>

---------------------------------------------------------------------------
(* Properties of the value an inquiry returns *)

\* the <value> of a line '<key><sep><value>': what follows its first ':' or '='
ValuePart(line) ==
    LET I == {i \in 1..Len(line) : CharAt(line, i) \in {":", "="}}
    IN From(line, CHOOSE i \in I : \A j \in I : i <= j)

\* C19: an inquiry that reads 'OK' after a value line '<key><sep><value>'
\* returns exactly <value>, as a string ('+CJOINMODE:0' gives "0", which
\* getJoinMode makes the join mode 0); an echo is never held as the value line.
C19_InquireReturnsValue ==
    /\ [](kvp # PyNone => Slice(kvp.s, 3) # "AT+")
    /\ [][ (/\ pc = "inq" /\ Taken = "OK" /\ kvp # PyNone
            /\ \E i \in 1..Len(kvp.s) : CharAt(kvp.s, i) \in {":", "="})
           => /\ pc' = "idle"
              /\ op.name \in {"getDevEui", "getManufId"}
                    => result' = Returned(PyStr(ValuePart(kvp.s)))
              /\ (op.name = "getJoinMode" /\ kvp.s = "+CJOINMODE:0")
                    => (result' = Returned(PyInt(0)) /\ joinMode' = PyInt(0)) ]_vars

\* an inquiry answered '+CGMI=ASR', 'OK' has returned "ASR"
C19_Witness ==
    /\ pc = "idle" /\ op.name = "getManufId" /\ heard = "more"
    /\ result = Returned(PyStr("ASR")) /\ txlog = <<"AT+CGMI?\r\n">>

---------------------------------------------------------------------------
(* Properties of the join state *)

\* C20: self.joined is False when the construction returns, and afterwards
\* changes only while the asynchronous reader takes a join status line: no
\* inquiry, set command, getter, setter, setJoinMode, checkForDownlink,
\* setDownlinkCallback or calcAirTime changes it.
C20_JoinStateWriters ==
    /\ []((op.name = "__init__" /\ pc = "idle" /\ result.k = "return") => ~joined)
    /\ [][ joined' # joined
           => \/ /\ pc = "drain" /\ op.name \in {"join", "sendPayload"}
                 /\ in_waiting(S) > 0 /\ Line(S) \in {"+CJOIN:OK", "+CJOIN:FAIL"}
              \/ op.name = "__init__" /\ pc = "set" /\ pc' = "inq" ]_vars

\* a joined driver has set a key, after checkForDownlink read a line and
\* calcAirTime and setDownlinkCallback were available to it
C20_Witness ==
    /\ joined /\ pc = "idle" /\ op.name = "setDevEui"
    /\ result = Returned(PyBool(TRUE)) /\ downlinkCallback = "f"

---------------------------------------------------------------------------
(* Properties of unsolicited lines and of validation *)

\* C21: a join status line that arrives during an inquiry, after the command's
\* own value line and before 'OK', is dropped: the value line stays the one the
\* inquiry holds, and getDevEui returns the EUI of the '+CDEVEUI:' line.
C21_UnsolicitedLineDropped ==
    [][ (pc = "inq" /\ op.name = "getDevEui")
        => /\ (kvp = PyStr("+CDEVEUI:" \o Hex16) /\ Taken \in {"+CJOIN:OK", "+CJOIN:FAIL"})
                => kvp' = kvp
           /\ (Taken = "OK" /\ pc' = "idle" /\ result'.k = "return")
                => result' = Returned(PyStr(Hex16)) ]_vars

\* what a method raises when it rejects its arguments or the join mode
ValidationErrors ==
    {"AssertionError", "ASRInvalidDevEui", "ASRInvalidAppEui", "ASRInvalidAppKey",
     "ASRInvalidDevAddr", "ASRInvalidAppSKey", "ASRInvalidNwkSKey", "ASRInvalidBootMode"}

\* C22: a call rejected by validation (malformed key, parameter out of range,
\* wrong join mode, invalid reboot mode) writes nothing, reads nothing, and
\* leaves lastATCmd and the recorded last error what they were before it.
C22_RejectionLeavesLastError ==
    [][ (pc = "idle" /\ pc' = "idle" /\ result'.k = "raise" /\ result'.e \in ValidationErrors)
        => /\ txlog' = <<>> /\ Len(rxbuf') >= Len(rxbuf)
           /\ lastATCmd' = lastATCmd
           /\ lastErrorType' = lastErrorType /\ lastErrorNum' = lastErrorNum
           /\ LastErrorType' = LastErrorType /\ LastErrorNum' = LastErrorNum ]_vars

\* a malformed EUI was rejected while the error the device gave to an earlier
\* set command is still recorded
C22_Witness ==
    /\ pc = "idle" /\ op = Call("setDevEui", "0123456789ABCDEG", <<>>)
    /\ result = Raised("ASRInvalidDevEui") /\ txlog = <<>>
    /\ lastATCmd = PyStr("CJOINMODE=0")
    /\ lastErrorType = PyStr("+CME ERROR") /\ lastErrorNum = PyStr("1")

---------------------------------------------------------------------------
(* Properties of getJoinMode *)

\* C23: every getJoinMode call is a transaction of its own, whatever the
\* joinMode field holds: it writes 'AT+CJOINMODE?' once, starts with nothing
\* buffered and no value line, and what it returns is the value of the line it
\* read itself; two calls answered alike by the device return the same value.
C23_GetJoinModeNotCached ==
    /\ [][ CallGetJoinMode
           => /\ pc' = "inq" /\ txlog' = <<"AT+CJOINMODE?\r\n">>
              /\ rxbuf' = <<>> /\ kvp' = PyNone ]_vars
    /\ [][ (pc = "inq" /\ op.name = "getJoinMode" /\ pc' = "idle" /\ result'.k = "return")
           => /\ Taken = "OK" /\ kvp # PyNone
              /\ result' = Returned(PyInt(IntOf(ValuePart(kvp.s))))
              /\ txlog' = <<"AT+CJOINMODE?\r\n">> ]_vars

\* a second getJoinMode is in flight after the first returned 1: it has written
\* its own command and read its own '+CJOINMODE:1'
C23_Witness ==
    /\ pc = "inq" /\ op.name = "getJoinMode" /\ txlog = <<"AT+CJOINMODE?\r\n">>
    /\ result = Returned(PyInt(1)) /\ joinMode = PyInt(1)
    /\ kvp = PyStr("+CJOINMODE:1")

---------------------------------------------------------------------------
(* Properties of the send reports in the asynchronous reader *)

\* C24: in the asynchronous reader 'ERR+SEND:<n>' raises ASRERRSend and
\* records the kind 'ERR+SEND' with the integer n, 'ERR+SENT:<n>' raises
\* ASRERRSent and records the kind 'ERR+SENT' with the integer n; an
\* 'OK+SEND:' or 'OK+SENT:' line raises nothing, the reader goes on, and the
\* join state and the last error stay what they were.
C24_SendReportsDistinct ==
    [][ pc = "drain"
        => /\ Slice(Taken, 9) = "ERR+SEND:"
                => /\ pc' = "idle" /\ result'.e = "ASRERRSend"
                   /\ lastErrorType' = PyStr("ERR+SEND")
                   /\ lastErrorNum' = PyInt(IntOf(From(Taken, 9)))
           /\ Slice(Taken, 9) = "ERR+SENT:"
                => /\ pc' = "idle" /\ result'.e = "ASRERRSent"
                   /\ lastErrorType' = PyStr("ERR+SENT")
                   /\ lastErrorNum' = PyInt(IntOf(From(Taken, 9)))
           /\ (Slice(Taken, 8) = "OK+SEND:" \/ Slice(Taken, 8) = "OK+SENT:")
                => /\ pc' = "drain" /\ result' = result /\ joined' = joined
                   /\ lastErrorType' = lastErrorType /\ lastErrorNum' = lastErrorNum
                   /\ LastErrorType' = LastErrorType /\ LastErrorNum' = LastErrorNum ]_vars

\* the reader has raised ASRERRSent on 'ERR+SENT:2'
C24_Witness ==
    /\ pc = "idle" /\ op.name = "sendPayload" /\ result.e = "ASRERRSent"
    /\ lastErrorType = PyStr("ERR+SENT") /\ lastErrorNum = PyInt(2)

---------------------------------------------------------------------------
(* Properties of an inquiry without a value *)

\* C25: an inquiry that reads 'OK' without a usable value line before it (it
\* holds no line at all, only an echo having come, or a line without ':' and
\* '=') fails with ASRPatternMatchFailed.
C25_NoValueIsPatternMatchFailed ==
    [][ (/\ pc = "inq" /\ Taken = "OK"
         /\ \/ kvp = PyNone
            \/ \A i \in 1..Len(kvp.s) : CharAt(kvp.s, i) \notin {":", "="})
        => (pc' = "idle" /\ result' = Raised("ASRPatternMatchFailed")) ]_vars

---------------------------------------------------------------------------
(* Properties of the registration of the downlink handler *)

\* C26: setDownlinkCallback(f) with a callable f returns True and f is the
\* registered handler from then on, whatever handler was registered before;
\* with an f that is not callable it returns False and the handler registered
\* before stays. Nothing is written to or read from the device.
C26_RegistrationOfHandler ==
    [][ (CallSetDownlinkCallback \/ CallSetOtherDownlinkCallback)
        => /\ pc' = "idle" /\ txlog' = <<>> /\ rxbuf' = rxbuf
           /\ IF op'.s \in {"f", "g"}
              THEN result' = Returned(PyBool(TRUE)) /\ downlinkCallback' = op'.s
              ELSE result' = Returned(PyBool(FALSE))
                   /\ downlinkCallback' = downlinkCallback ]_vars

\* a value that is not callable was refused; the handler g, registered
\* before, stays registered
C26_Witness ==
    /\ pc = "idle" /\ op = Call("setDownlinkCallback", "notcallable", <<>>)
    /\ result = Returned(PyBool(FALSE)) /\ downlinkCallback = "g"

---------------------------------------------------------------------------
(* Properties of calcAirTime; air times are in 1/2000 ms *)

\* C27: calcAirTime(PL=13, SF=9, BW=125), the other parameters at their
\* defaults, is the reference value for DR3 EU868, 123.9 ms to within 0.05 ms.
C27_AirTimeReference ==
    (pc = "idle" /\ op = Call("calcAirTime", "", <<13, 9, 125, 8, 0, 0, 1>>))
        => /\ result.k = "return" /\ result.v.t = "float"
           /\ result.v.n \in (247800 - 100)..(247800 + 100)


\* the air time of the closed form, in 1/2000 ms: (NP + 4.25) * Tsym
\* + (8 + max(0, ceil((8PL - 4SF + 28 + 16 - 20HE) / (4(SF - 2DE))) * (CR + 4))) * Tsym
\* with Tsym = 2^SF / BW; a is <<PL, SF, BW, NP, HE, DE, CR>>
ClosedForm(a) ==
    LET num == 8 * a[1] - 4 * a[2] + 28 + 16 - 20 * a[5]
        den == 4 * (a[2] - 2 * a[6])
        q == CHOOSE c \in -64..64 : c * den >= num /\ (c - 1) * den < num
        symbols == 8 + (IF q * (a[7] + 4) > 0 THEN q * (a[7] + 4) ELSE 0)
    IN ((4 * a[4] + 17 + 4 * symbols) * 2^(a[2]) * 500) \div a[3]

\* C28: for every PL, SF in 7..12, BW in {125, 250, 500}, NP, HE, DE in {0, 1}
\* and CR in 1..4, calcAirTime returns the closed form of its arguments,
\* whatever the state of the driver, and it writes nothing, reads nothing and
\* changes no attribute of the driver.
C28_AirTimeClosedForm ==
    /\ [](pc = "idle" => result = Returned(PyFloat(ClosedForm(op.i))))
    /\ [][ pc = "called"
           => /\ pc' = "idle" /\ op' = op
              /\ txlog' = txlog /\ rxbuf' = rxbuf
              /\ joined' = joined /\ joinMode' = joinMode
              /\ downlinkCallback' = downlinkCallback /\ lastATCmd' = lastATCmd
              /\ lastErrorType' = lastErrorType /\ lastErrorNum' = lastErrorNum
              /\ LastErrorType' = LastErrorType /\ LastErrorNum' = LastErrorNum ]_vars

\* an air time was computed with a payload, the low data rate optimisation and
\* an implicit header, on a driver with a line waiting in its input buffer
C28_Witness ==
    /\ pc = "idle" /\ op = Call("calcAirTime", "", <<13, 12, 125, 8, 1, 1, 4>>)
    /\ result = Returned(PyFloat(2375680)) /\ rxbuf = <<"+CJOIN:OK\r\n">>

---------------------------------------------------------------------------
(* Properties of the device class *)

\* C30: setClass accepts each of the three classes of its documentation:
\* setClass(0), setClass(1, 0, ...), setClass(1, 1, ...) and setClass(2) each
\* write a command 'AT+CCLASS=<class>...'; ASRUnknownClassCombination is
\* raised for the other combinations only.
C30_SetClassAcceptsABC ==
    [][ CallSetClass
        => IF op'.i \in {<<0, 0>>, <<1, 0>>, <<1, 1>>, <<2, 0>>}
           THEN /\ pc' = "set" /\ Len(txlog') = 1
                /\ Slice(txlog'[1], 11) = "AT+CCLASS=" \o FmtInt(op'.i[1])
           ELSE /\ pc' = "idle" /\ txlog' = <<>>
                /\ result' = Raised("ASRUnknownClassCombination") ]_vars

---------------------------------------------------------------------------
(* Properties of the serial channel *)

\* a command is written on this step
Written == txlog' # txlog /\ txlog' # <<>>

\* C29: at most one transaction is in flight: while a command waits for its
\* reply, the command written last is that command, and a command is written
\* only when none is waiting (a method is called, or continues after its set
\* command) or on the very step that read the definitive reply 'OK' of the
\* one before; one command is written at a time. This holds through the
\* construction, join, sendPayload, setPingSlotPeriod and reboot.
C29_OneTransactionInFlight ==
    /\ [](pc \in {"inq", "set"}
            => /\ txlog # <<>>
               /\ LastWritten = "AT+" \o lastATCmd.s
                                   \o (IF pc = "inq" THEN "?" ELSE "") \o "\r\n")
    /\ [][ Written
           => /\ pc' \in {"inq", "set"}
              /\ \/ pc = "idle" /\ Len(txlog') = 1
                 \/ /\ Len(txlog') = Len(txlog) + 1
                    /\ SubSeq(txlog', 1, Len(txlog)) = txlog
                    /\ \/ pc = "rx1"
                       \/ /\ pc \in {"inq", "set"}
                          /\ (Taken = "OK" \/ Slice(Taken, 8) = "OK+SEND:") ]_vars

\* setPingSlotPeriod has written its own command after getClass returned 2
C29_Witness ==
    /\ pc = "set" /\ op.name = "setPingSlotPeriod"
    /\ txlog = <<"AT+CCLASS?\r\n", "AT+CPINGSLOTINFOREQ=3\r\n">>
    /\ lastATCmd = PyStr("CPINGSLOTINFOREQ=3")


\* C31: setPingSlotPeriod writes 'CPINGSLOTINFOREQ=<period>' exactly when the
\* device reports class B (class number 1) to its getClass; for any other
\* class it is rejected and the set command is not written.
C31_PingSlotOnlyInClassB ==
    [][ (/\ pc = "inq" /\ op.name = "setPingSlotPeriod" /\ Taken = "OK"
         /\ kvp \in {PyStr("+CCLASS:0"), PyStr("+CCLASS:1"), PyStr("+CCLASS:2")})
        => IF kvp = PyStr("+CCLASS:1")
           THEN /\ pc' = "set"
                /\ txlog' = <<"AT+CCLASS?\r\n",
                              "AT+CPINGSLOTINFOREQ=" \o FmtInt(op.i[1]) \o "\r\n">>
           ELSE pc' = "idle" /\ result'.k = "raise" /\ txlog' = txlog ]_vars

---------------------------------------------------------------------------
(* Properties of reboot *)

\* C32: reboot(mode) writes 'AT+IREBOOT=<mode>' exactly when mode is 0, 1 or
\* 7; for any other mode it raises ASRInvalidBootMode and writes nothing.
C32_RebootModes ==
    [][ CallReboot
        => IF op'.i[1] \in {0, 1, 7}
           THEN /\ pc' = "set"
                /\ txlog' = <<"AT+IREBOOT=" \o FmtInt(op'.i[1]) \o "\r\n">>
           ELSE /\ pc' = "idle" /\ txlog' = <<>> /\ rxbuf' = rxbuf
                /\ result' = Raised("ASRInvalidBootMode") ]_vars

\* reboot(8) was refused with a line waiting in the input buffer
C32_Witness ==
    /\ pc = "idle" /\ op = Call("reboot", "", <<8>>) /\ txlog = <<>>
    /\ result = Raised("ASRInvalidBootMode") /\ rxbuf # <<>>

---------------------------------------------------------------------------
(* Properties of getJoinInfo and getModelRevision *)

\* C33: getJoinInfo maps the four comma-separated fields of the '+CJOIN:'
\* reply to its keys in order: start is field 1, autojoin field 2, interval
\* field 3 and retries field 4.
C33_JoinInfoFieldsInOrder ==
    [][ (/\ pc = "inq" /\ op.name = "getJoinInfo" /\ Taken = "OK"
         /\ kvp = PyStr("+CJOIN:1,0,8,9"))
        => /\ pc' = "idle"
           /\ result' = Returned(PyDict("1", "0", "8", "9")) ]_vars

\* C34: an inquiry returns the whole value of the value line, everything
\* after its first ':' or '=', also when the value itself contains one:
\* getModelRevision on '+CGMR=v4.3 softversion=V1.2.0' returns
\* 'v4.3 softversion=V1.2.0'.
C34_ValueWithSeparatorWhole ==
    [][ (/\ pc = "inq" /\ op.name = "getModelRevision" /\ Taken = "OK"
         /\ kvp # PyNone
         /\ \E i \in 1..Len(kvp.s) : CharAt(kvp.s, i) \in {":", "="})
        => /\ pc' = "idle"
           /\ result' = Returned(PyStr(ValuePart(kvp.s)))
           /\ kvp = PyStr("+CGMR=v4.3 softversion=V1.2.0")
                 => result' = Returned(PyStr("v4.3 softversion=V1.2.0")) ]_vars

---------------------------------------------------------------------------
(* Properties of the lines that arrive while join and sendPayload run *)

\* C35: a join status line emitted after the device acknowledged CJOIN is
\* never discarded unread: whichever step of join takes it off the input
\* buffer (the RX1 delay inquiry with its discard, the busy wait, the drain),
\* it is the reader that takes it, and the reader classifies it.
C35_JoinStatusNeverDiscarded ==
    [][ (/\ op.name = "join" /\ pc \in {"rx1", "inq", "wait", "drain"}
         /\ rxbuf # <<>> /\ Line(S) \in {"+CJOIN:OK", "+CJOIN:FAIL"}
         /\ Len(rxbuf') < Len(rxbuf))
        => /\ pc = "drain"
           /\ joined' = (Line(S) = "+CJOIN:OK") ]_vars

\* C36: during sendPayload with a registered handler, every 'OK+RECV:' line
\* and every 'ERR+SEND:' / 'ERR+SENT:' line the device emits after the DTRX
\* command was accepted and before the window ends is read by the reader:
\* none is lost to the input-buffer discard of the RX1 delay inquiry.
C36_SendRepliesNeverDiscarded ==
    [][ (/\ op.name = "sendPayload" /\ pc \in {"rx1", "inq", "drain", "sendloop"}
         /\ downlinkCallback # "None"
         /\ rxbuf # <<>>
         /\ \/ Slice(Line(S), 8) = "OK+RECV:"
            \/ Slice(Line(S), 9) \in {"ERR+SEND:", "ERR+SENT:"}
         /\ Len(rxbuf') < Len(rxbuf))
        => pc = "drain" ]_vars

\* C37: join(start=0, ...) returns once the stop command is acknowledged with
\* 'OK': it does not wait for a further line, and it does not raise
\* ASRReceiveTimeout when the device sends nothing after the OK.
C37_StopReturnsOnOk ==
    /\ [][ (/\ op.name = "join" /\ op.i[1] = 0 /\ pc = "set" /\ Taken = "OK")
           => (pc' = "idle" /\ result'.k = "return") ]_vars
    /\ [][ (op.name = "join" /\ op.i[1] = 0 /\ pc = "wait" /\ pc' = "idle")
           => result' # Raised("ASRReceiveTimeout") ]_vars

---------------------------------------------------------------------------
(* Properties of the command getLastATError() names *)

\* C38: the command field of the record getLastATError() returns names the
\* command whose failure produced the kind and the code: when 'ERR+SEND:<n>'
\* or 'ERR+SENT:<n>' was recorded during sendPayload, the command field is
\* the DTRX command, not the CRX1DELAY inquiry made in between.
C38_SendErrorNamesDtrx ==
    (/\ op.name = "sendPayload"
     /\ getLastATError.Type \in {PyStr("ERR+SEND"), PyStr("ERR+SENT")})
        => /\ getLastATError.AtCmd # PyStr("CRX1DELAY")
           /\ Slice(getLastATError.AtCmd.s, 5) = "DTRX="

---------------------------------------------------------------------------
(* Properties of the bytes written *)

\* the command is one line: CR LF at its end and no CR or LF before
SingleLine(c) ==
    /\ Len(c) >= 2
    /\ From(c, Len(c) - 2) = "\r\n"
    /\ \A j \in 1..(Len(c) - 2) : CharAt(c, j) \notin {"\r", "\n"}

\* C39: every command written is a single line, with exactly one CR LF, at
\* its very end, whatever argument the caller supplied that passed the
\* validation (a key the hex patterns accept, a multicast address of 32
\* characters, a payload).
C39_CommandsAreSingleLines ==
    \A i \in 1..Len(txlog) : SingleLine(txlog[i])

---------------------------------------------------------------------------
(* Properties of the join mode the driver keeps *)

\* C40: the join mode the driver keeps, which gates the key setters, is the
\* join mode of the device after any sequence of public operations: it is
\* updated by every setJoinMode and getJoinMode that succeeds, unchanged when
\* setJoinMode fails, and not left stale by restoreMacConfiguration or reboot.
C40_JoinModeInStep ==
    /\ [][ (pc = "set" /\ op.name = "setJoinMode" /\ pc' = "idle")
           => IF result'.k = "return" THEN joinMode' = PyInt(op.i[1])
              ELSE joinMode' = joinMode ]_vars
    /\ [][ (pc = "inq" /\ op.name = "getJoinMode" /\ pc' = "idle" /\ result'.k = "return")
           => joinMode' = result'.v ]_vars
    /\ []((/\ pc = "idle" /\ result.k = "return"
           /\ op.name \in {"setJoinMode", "getJoinMode", "restoreMacConfiguration", "reboot"})
          => joinMode = PyInt(deviceJoinMode))

====
